---- MODULE Spec2Model ----
(***************************************************************************)
(* A model of graphstack (src/src/lib.rs): the GraphStack store (items,    *)
(* ancestors) with push / add_ancestors / stacks, and the Stacks iterator  *)
(* (cursors, unstack) with next().                                         *)
(*                                                                         *)
(* A reference &gs.items[i] is modelled by the index i it points at; the   *)
(* value it dereferences to is items[i + 1] (TLA+ sequences are 1-based,   *)
(* Rust vectors 0-based).  A panic is the outcome ret.kind = "panic": the  *)
(* program has aborted and no further operation runs.                      *)
(***************************************************************************)
EXTENDS Naturals, Sequences, FiniteSets

\* ------------------------------------------------------------------ bounds

\* Most nodes a store is grown to by push.
MaxNodes == 3
\* Most ancestor entries a store holds over all its ancestor lists.
MaxEdges == 3
\* Longest ancestor slice handed to one push or add_ancestors call.
MaxArg == 2
\* Deepest cursor stack the descent loop is followed to (cyclic stores only).
MaxDepth == 5
\* Most ancestor entries of a store that two iterators walk at once.
MaxEdgesTwo == 2

\* The values stored in nodes (the type parameter T).
Values == {"a", "b"}
\* The ids a caller supplies: every id a store can hold, and one beyond.
Ids == 0..MaxNodes
\* The ancestor slices a caller supplies.
Slices == UNION {[1..k -> Ids] : k \in 0..MaxArg}
\* Iterator handles a caller may hold at once.
Handles == {1, 2}

VARIABLES
    items,      \* GraphStack.items: Vec<T>
    ancestors,  \* GraphStack.ancestors: HashMap<usize, Vec<usize>>
    its,        \* the live Stacks iterators, by handle
    ret,        \* the outcome of the last operation
    started,    \* history: per handle, the start_item its iterator was built with
    choice,     \* history: per handle, the cursors' ancestor indices at the snapshot
    out,        \* history: per handle, what next() has returned so far
    kept,       \* history: per handle, unstack as the current next() found it
    seen        \* history: an enumeration collected to the end, and its store

vars == <<items, ancestors, its, ret, started, choice, out, kept, seen>>
hist == <<started, choice, out>>

\* ----------------------------------------------------------------- helpers

\* Vec::len of items.
NumItems == Len(items)

\* HashMap::contains_key on ancestors.
ContainsKey(id) == id \in DOMAIN ancestors

\* ancestors[&id] as a Vec (callers check ContainsKey first).
AncestorsOf(id) == ancestors[id]

\* The number of ancestor entries held by the store.
RECURSIVE SumLen(_, _)
SumLen(f, S) ==
    IF S = {} THEN 0
    ELSE LET k == CHOOSE x \in S : TRUE
         IN  Len(f[k]) + SumLen(f, S \ {k})

NumEdges == SumLen(ancestors, DOMAIN ancestors)

\* A Cursor value.
Cursor(item, ancestor) == [item |-> item, ancestor |-> ancestor]

\* No iterator behind a handle.
NoIt == [pc |-> "absent", cursors |-> <<>>, unstack |-> <<>>, snapshot |-> <<>>]

\* Outcomes of operations.
RetInit == [op |-> "new", kind |-> "unit", id |-> 0, path |-> <<>>]
RetUnit(op) == [op |-> op, kind |-> "unit", id |-> 0, path |-> <<>>]
RetId(op, id) == [op |-> op, kind |-> "id", id |-> id, path |-> <<>>]
RetSome(path) == [op |-> "next", kind |-> "some", id |-> 0, path |-> path]
RetNone == [op |-> "next", kind |-> "none", id |-> 0, path |-> <<>>]
RetPanic(op) == [op |-> op, kind |-> "panic", id |-> 0, path |-> <<>>]

Running == ret.kind # "panic"

\* The borrow rule: a &mut self method runs only while no Stacks borrows the store.
NoBorrow == \A e \in Handles : its[e] = NoIt

\* Mutant of Truncate: the buffer is never cut back.
TruncateNothing(s, n) == s

\* Vec::truncate.
Truncate(s, n) == IF n < Len(s) THEN SubSeq(s, 1, n) ELSE s

\* All but the last element (Vec::pop).
Front(s) == SubSeq(s, 1, Len(s) - 1)

\* -------------------------------------------------------------------- init

\* Nothing has been collected yet.
NoSeen == [set |-> FALSE, start |-> 0, paths |-> <<>>, ancestors |-> <<>>]

Init ==
    /\ items = <<>>
    /\ ancestors = <<>>
    /\ its = [e \in Handles |-> NoIt]
    /\ ret = RetInit
    /\ started = [e \in Handles |-> 0]
    /\ choice = [e \in Handles |-> <<>>]
    /\ out = [e \in Handles |-> <<>>]
    /\ kept = [e \in Handles |-> <<>>]
    /\ seen = NoSeen

\* ------------------------------------------------------------ GraphStack

\* Mutant of PushInvalid: the bound is off by one.
PushInvalidOffByOne(a) == \E i \in 1..Len(a) : a[i] > NumItems

\* push's validity test: some supplied ancestor is not an existing item.
PushInvalid(a) == \E i \in 1..Len(a) : a[i] >= NumItems

\* Mutant of NewItemId: the length is not turned into an index.
NewItemIdIsLen == NumItems + 1

\* let item_id = self.items.len() - 1, after items.push(value).
NewItemId == (NumItems + 1) - 1

\* GraphStack::push(value, ancestors).
Push(value, a) ==
    /\ Running /\ NoBorrow
    /\ NumItems < MaxNodes
    /\ NumEdges + Len(a) <= MaxEdges
    /\ IF PushInvalid(a)
       THEN /\ ret' = RetPanic("push")
            /\ UNCHANGED <<items, ancestors>>
       ELSE LET item_id == NewItemId
            IN  /\ items' = Append(items, value)
                /\ ancestors' = [k \in DOMAIN ancestors \cup {item_id} |->
                                    IF k = item_id THEN a ELSE ancestors[k]]
                /\ ret' = RetId("push", item_id)
    /\ UNCHANGED <<its, hist, kept, seen>>

\* Mutant of AddInvalid: the bound is off by one.
AddInvalidOffByOne(id) == id > NumItems

\* add_ancestors's validity test: id has no ancestor list.
AddInvalid(id) == ~ContainsKey(id)

\* Mutant of Extend: the supplied ids take the place of the list.
ExtendReplaces(list, a) == a

\* Mutant of Extend: the supplied ids go in front of the list.
ExtendInFront(list, a) == a \o list

\* Vec::extend: the supplied ids are appended to the list.
Extend(list, a) == list \o a

\* GraphStack::add_ancestors(id, ancestors).
AddAncestors(id, a) ==
    /\ Running /\ NoBorrow
    /\ NumEdges + Len(a) <= MaxEdges
    /\ IF AddInvalid(id)
       THEN /\ ret' = RetPanic("add_ancestors")
            /\ UNCHANGED <<items, ancestors>>
       ELSE /\ ancestors' = [ancestors EXCEPT ![id] = Extend(@, a)]
            /\ ret' = RetUnit("add_ancestors")
            /\ UNCHANGED items
    /\ UNCHANGED <<its, hist, kept, seen>>

\* Mutant of NewStacks: the first cursor starts at ancestor 1.
NewStacksFromOne(start_item) ==
    [pc |-> "ready",
     cursors |-> <<Cursor(start_item, 1)>>,
     unstack |-> <<start_item>>,
     snapshot |-> <<>>]

\* Mutant of NewStacks: the start item's value is not unpacked.
NewStacksUnseeded(start_item) ==
    [pc |-> "ready",
     cursors |-> <<Cursor(start_item, 0)>>,
     unstack |-> <<>>,
     snapshot |-> <<>>]

\* Stacks::new: one cursor on start_item, its value unpacked.
NewStacks(start_item) ==
    [pc |-> "ready",
     cursors |-> <<Cursor(start_item, 0)>>,
     unstack |-> <<start_item>>,
     snapshot |-> <<>>]

\* Mutant of StartInvalid: the bound is off by one.
StartInvalidOffByOne(start_item) == start_item > NumItems

\* The bounds check of &gs.items[start_item] in Stacks::new.
StartInvalid(start_item) == start_item >= NumItems

\* GraphStack::stacks(start_item), the iterator kept behind handle e.
\* &gs.items[start_item] panics when start_item is out of bounds.
Stacks(e, start_item) ==
    /\ Running
    /\ its[e] = NoIt
    /\ IF StartInvalid(start_item)
       THEN /\ ret' = RetPanic("stacks")
            /\ UNCHANGED <<its, hist>>
       ELSE /\ its' = [its EXCEPT ![e] = NewStacks(start_item)]
            /\ started' = [started EXCEPT ![e] = start_item]
            /\ ret' = RetUnit("stacks")
            /\ UNCHANGED <<choice, out>>
    /\ UNCHANGED <<items, ancestors, kept, seen>>

\* Mutant of Drop: letting the iterator go empties the store it walked.
DropTakesStore(e) ==
    /\ Running
    /\ its[e] # NoIt
    /\ its[e].pc = "ready"
    /\ its' = [its EXCEPT ![e] = NoIt]
    /\ started' = [started EXCEPT ![e] = 0]
    /\ out' = [out EXCEPT ![e] = <<>>]
    /\ choice' = [choice EXCEPT ![e] = <<>>]
    /\ kept' = [kept EXCEPT ![e] = <<>>]
    /\ ret' = RetUnit("drop")
    /\ items' = <<>>
    /\ ancestors' = <<>>
    /\ UNCHANGED seen

\* Dropping the iterator behind handle e ends its borrow of the store.
Drop(e) ==
    /\ Running
    /\ its[e] # NoIt
    /\ its[e].pc = "ready"
    /\ its' = [its EXCEPT ![e] = NoIt]
    /\ started' = [started EXCEPT ![e] = 0]
    /\ out' = [out EXCEPT ![e] = <<>>]
    /\ choice' = [choice EXCEPT ![e] = <<>>]
    /\ kept' = [kept EXCEPT ![e] = <<>>]
    /\ ret' = RetUnit("drop")
    /\ UNCHANGED <<items, ancestors, seen>>

\* ---------------------------------------------------------- Stacks::next

\* Mutant of NextEnter: the test for an empty cursor stack is missing.
NextEnterUnguarded(e) ==
    /\ Running
    /\ its[e].pc = "ready"
    /\ its' = [its EXCEPT ![e].pc = "descend"]
    /\ kept' = [kept EXCEPT ![e] = its[e].unstack]
    /\ UNCHANGED <<ret, items, ancestors, hist, seen>>

\* Entry of next(): None at once when there are no cursors.
NextEnter(e) ==
    /\ Running
    /\ its[e].pc = "ready"
    /\ IF its[e].cursors = <<>>
       THEN /\ ret' = RetNone
            /\ UNCHANGED <<its, kept>>
       ELSE /\ its' = [its EXCEPT ![e].pc = "descend"]
            /\ kept' = [kept EXCEPT ![e] = its[e].unstack]
            /\ UNCHANGED ret
    /\ UNCHANGED <<items, ancestors, hist, seen>>

\* The end of the descent loop: let stack_snapshot = self.unstack.clone().
Snapshot(e) ==
    /\ its' = [its EXCEPT ![e].pc = "advance",
                          ![e].snapshot = its[e].unstack]
    /\ choice' = [choice EXCEPT ![e] =
                    [i \in 1..Len(its[e].cursors) |-> its[e].cursors[i].ancestor]]
    /\ UNCHANGED ret

\* A panic inside next(): an index out of bounds, or a key the map lacks.
NextPanic ==
    /\ ret' = RetPanic("next")
    /\ UNCHANGED <<its, choice>>

\* Mutant of PrevItemId: the ancestor index is taken for the item id.
PrevItemIdIsIndex(cursor) == cursor.ancestor

\* let prev_item_id = item_ancestors[cursor.ancestor] (callers check the bounds).
PrevItemId(cursor) == AncestorsOf(cursor.item)[cursor.ancestor + 1]

\* Mutant of Descend: the cursor's own item is unpacked, not its ancestor.
DescendUnpacksSelf(e, prev_item_id) ==
    /\ Len(its[e].cursors) < MaxDepth
    /\ its' = [its EXCEPT
                ![e].unstack = Append(@, its[e].cursors[Len(its[e].cursors)].item),
                ![e].cursors = Append(@, Cursor(prev_item_id, 0))]
    /\ UNCHANGED <<ret, choice>>

\* Mutant of Descend: a visited-set guard ends the descent at an item that
\* is on the cursor stack already.
DescendGuarded(e, prev_item_id) ==
    IF \E i \in 1..Len(its[e].cursors) : its[e].cursors[i].item = prev_item_id
    THEN Snapshot(e)
    ELSE /\ Len(its[e].cursors) < MaxDepth
         /\ its' = [its EXCEPT
                ![e].unstack = Append(@, prev_item_id),
                ![e].cursors = Append(@, Cursor(prev_item_id, 0))]
         /\ UNCHANGED <<ret, choice>>

\* The body of the descent loop past its break: the cursor's ancestor is
\* unpacked and gets a cursor of its own.
Descend(e, prev_item_id) ==
    /\ Len(its[e].cursors) < MaxDepth
    /\ its' = [its EXCEPT
                ![e].unstack = Append(@, prev_item_id),
                ![e].cursors = Append(@, Cursor(prev_item_id, 0))]
    /\ UNCHANGED <<ret, choice>>

\* One iteration of the descent loop (while let Some(cursor) = cursors.last()).
DescendStep(e) ==
    /\ Running
    /\ its[e].pc = "descend"
    /\ LET it == its[e]
           cursor == it.cursors[Len(it.cursors)]
       IN  IF it.cursors = <<>>
           THEN Snapshot(e)
           ELSE IF ~ContainsKey(cursor.item)
           THEN NextPanic
           ELSE IF AncestorsOf(cursor.item) = <<>>
           THEN Snapshot(e)
           ELSE IF cursor.ancestor >= Len(AncestorsOf(cursor.item))
           THEN NextPanic
           ELSE LET prev_item_id == PrevItemId(cursor)
                IN  IF prev_item_id >= NumItems
                    THEN NextPanic
                    ELSE Descend(e, prev_item_id)
    /\ UNCHANGED <<items, ancestors, started, out, kept, seen>>

\* Mutant of Finish: the cursors and the buffer are one state that every
\* iterator of the store shares.
FinishShared(e, cursors) ==
    /\ its' = [f \in Handles |->
                IF its[f] = NoIt THEN its[f]
                ELSE [pc |-> IF f = e THEN "ready" ELSE its[f].pc,
                      cursors |-> cursors,
                      unstack |-> Truncate(its[e].unstack, Len(cursors)),
                      snapshot |-> IF f = e THEN <<>> ELSE its[f].snapshot]]
    /\ out' = [out EXCEPT ![e] = Append(@, [path |-> its[e].snapshot, choice |-> choice[e]])]
    /\ choice' = [choice EXCEPT ![e] = <<>>]
    /\ ret' = RetSome(its[e].snapshot)

\* What next() hands back: Some(stack_snapshot).
Yield(e) == [path |-> its[e].snapshot, choice |-> choice[e]]

\* The end of next(): unstack.truncate(cursors.len()); Some(stack_snapshot).
Finish(e, cursors) ==
    /\ its' = [its EXCEPT ![e].pc = "ready",
                          ![e].cursors = cursors,
                          ![e].unstack = Truncate(@, Len(cursors)),
                          ![e].snapshot = <<>>]
    /\ out' = [out EXCEPT ![e] = Append(@, Yield(e))]
    /\ choice' = [choice EXCEPT ![e] = <<>>]
    /\ ret' = RetSome(its[e].snapshot)

\* Mutant of HasMore: the test is off by one.
HasMoreOffByOne(cursor) == cursor.ancestor < Len(AncestorsOf(cursor.item))

\* The advance loop's test: the cursor has another ancestor to move to.
HasMore(cursor) == cursor.ancestor + 1 < Len(AncestorsOf(cursor.item))

\* Mutant of Advance: the cursor stays on the ancestor it was on.
AdvanceStays(cursor) == cursor

\* cursor.ancestor += 1: the cursor moves on to its node's next ancestor.
Advance(cursor) == [cursor EXCEPT !.ancestor = @ + 1]

\* One iteration of the advance loop (while let Some(cursor) = cursors.last_mut()).
AdvanceStep(e) ==
    /\ Running
    /\ its[e].pc = "advance"
    /\ LET it == its[e]
           n == Len(it.cursors)
           cursor == it.cursors[n]
       IN  IF it.cursors = <<>>
           THEN Finish(e, it.cursors)
           ELSE IF ~ContainsKey(cursor.item)
           THEN /\ ret' = RetPanic("next")
                /\ UNCHANGED <<its, out, choice>>
           ELSE IF HasMore(cursor)
           THEN Finish(e, [it.cursors EXCEPT ![n] = Advance(@)])
           ELSE /\ its' = [its EXCEPT ![e].cursors = Front(it.cursors)]
                /\ UNCHANGED <<out, ret, choice>>
    /\ UNCHANGED <<items, ancestors, started, kept, seen>>

\* ------------------------------------------------------------------- specs

\* One iterator at a time over a store grown by push and add_ancestors.
Next ==
    \/ \E value \in Values, a \in Slices : Push(value, a)
    \/ \E id \in Ids, a \in Slices : AddAncestors(id, a)
    \/ \E start_item \in Ids : Stacks(1, start_item)
    \/ Drop(1)
    \/ NextEnter(1)
    \/ DescendStep(1)
    \/ AdvanceStep(1)

Spec == Init /\ [][Next]_vars

\* Two iterators at a time, started at the same item of one store.
NextTwo ==
    \/ \E value \in Values, a \in Slices :
            NumEdges + Len(a) <= MaxEdgesTwo /\ Push(value, a)
    \/ \E id \in Ids, a \in Slices :
            NumEdges + Len(a) <= MaxEdgesTwo /\ AddAncestors(id, a)
    \/ \E e \in Handles, start_item \in Ids :
            /\ \A f \in Handles : its[f] # NoIt => started[f] = start_item
            /\ Stacks(e, start_item)
    \/ \E e \in Handles : Drop(e)
    \/ \E e \in Handles : NextEnter(e)
    \/ \E e \in Handles : DescendStep(e)
    \/ \E e \in Handles : AdvanceStep(e)

SpecTwo == Init /\ [][NextTwo]_vars

\* One iterator that its caller pulls from until the end: a next() that has
\* been entered runs on, and a caller holding an iterator calls next() again.
NextRun ==
    \/ \E value \in Values, a \in Slices : Push(value, a)
    \/ \E id \in Ids, a \in Slices : AddAncestors(id, a)
    \/ \E start_item \in Ids : Stacks(1, start_item)
    \/ NextEnter(1)
    \/ DescendStep(1)
    \/ AdvanceStep(1)

SpecRun ==
    /\ Init /\ [][NextRun]_vars
    /\ WF_vars(NextEnter(1)) /\ WF_vars(DescendStep(1)) /\ WF_vars(AdvanceStep(1))

\* The caller has pulled from the iterator behind e until next() is at its
\* end, as the tests do, keeps the paths and lets the iterator go.
Collect(e) ==
    /\ Running
    /\ its[e] # NoIt
    /\ its[e].pc = "ready"
    /\ its[e].cursors = <<>>
    /\ ~seen.set
    /\ seen' = [set |-> TRUE, start |-> started[e],
                paths |-> [i \in 1..Len(out[e]) |-> out[e][i].path],
                ancestors |-> ancestors]
    /\ its' = [its EXCEPT ![e] = NoIt]
    /\ started' = [started EXCEPT ![e] = 0]
    /\ out' = [out EXCEPT ![e] = <<>>]
    /\ choice' = [choice EXCEPT ![e] = <<>>]
    /\ kept' = [kept EXCEPT ![e] = <<>>]
    /\ ret' = RetUnit("drop")
    /\ UNCHANGED <<items, ancestors>>

\* A store is built and enumerated to the end from some start; then one
\* add_ancestors call is made and the store is enumerated from that start again.
NextGrow ==
    \/ \E value \in Values, a \in Slices : ~seen.set /\ Push(value, a)
    \/ \E id \in Ids, a \in Slices :
            /\ seen.set => ancestors = seen.ancestors
            /\ AddAncestors(id, a)
    \/ \E start_item \in Ids :
            /\ seen.set => start_item = seen.start
            /\ Stacks(1, start_item)
    \/ NextEnter(1)
    \/ DescendStep(1)
    \/ AdvanceStep(1)
    \/ Collect(1)

SpecGrow == Init /\ [][NextGrow]_vars

\* A store built by push alone, as a caller that never calls add_ancestors
\* builds it, and one iterator over it.
NextPush ==
    \/ \E value \in Values, a \in Slices : Push(value, a)
    \/ \E start_item \in Ids : Stacks(1, start_item)
    \/ Drop(1)
    \/ NextEnter(1)
    \/ DescendStep(1)
    \/ AdvanceStep(1)

SpecPush == Init /\ [][NextPush]_vars

\* --------------------------------------------------- vocabulary of claims

\* The value a reference into items dereferences to.
Value(n) == items[n + 1]

\* A path of references read as the values it points at.
Deref(path) == [i \in 1..Len(path) |-> Value(path[i])]

\* The entries of n's ancestor list, as a set.
Entries(n) == IF ContainsKey(n)
              THEN {ancestors[n][i] : i \in 1..Len(ancestors[n])}
              ELSE {}

\* The ids reached from the ids of S by following ancestor entries.
RECURSIVE ReachFrom(_)
ReachFrom(S) ==
    LET T == S \cup UNION {Entries(n) : n \in S}
    IN  IF T = S THEN S ELSE ReachFrom(T)

Reach(n) == ReachFrom({n})

\* n lies on a cycle of ancestor entries.
OnCycle(n) == n \in ReachFrom(Entries(n))

\* The store has no cycle, and names no ancestor that is not a node.
Acyclic == \A n \in DOMAIN ancestors : ~OnCycle(n)
AllExist == \A n \in DOMAIN ancestors : Entries(n) \subseteq DOMAIN ancestors

\* Some node that n reaches lies on a cycle; every id that n reaches is a node.
CycleFrom(n) == \E m \in Reach(n) : OnCycle(m)
AllExistFrom(n) == Reach(n) \subseteq DOMAIN ancestors

IsPrefix(s, t) == Len(s) <= Len(t) /\ \A i \in 1..Len(s) : s[i] = t[i]

\* An iterator is held behind handle e; it is between two next() calls;
\* its next() will report exhaustion.
Live(e) == its[e] # NoIt
Idle(e) == Live(e) /\ its[e].pc = "ready"
Exhausted(e) == Idle(e) /\ its[e].cursors = <<>>

\* What the iterator behind e has yielded: as references, and as values.
Paths(e) == [i \in 1..Len(out[e]) |-> out[e][i].path]
Yielded(e) == [i \in 1..Len(out[e]) |-> Deref(out[e][i].path)]

\* The reference enumeration P(n) of the paths from n, as values.
RECURSIVE RefPaths(_), RefOver(_, _, _)
RefPaths(n) ==
    IF ancestors[n] = <<>> THEN << <<Value(n)>> >> ELSE RefOver(n, ancestors[n], 1)
RefOver(n, as, i) ==
    IF i > Len(as) THEN <<>>
    ELSE LET ps == RefPaths(as[i])
         IN  [j \in 1..Len(ps) |-> <<Value(n)>> \o ps[j]] \o RefOver(n, as, i + 1)

\* ------------------------------------------------------------------ claims

\* e is the only iterator held.
Alone(e) == \A f \in Handles \ {e} : ~Live(f)

\* The last operation was a next() that panicked.
NextPanicked == ret = RetPanic("next")

\* C1: on an acyclic store whose ancestor ids all exist, what stacks(start)
\* has yielded is always a prefix of the reference enumeration P(start), path
\* for path and in order; next() never panics, and it reports exhaustion
\* exactly when all of P(start) has been yielded.
C1_YieldsReferenceEnumeration ==
    \A e \in Handles :
        (Live(e) /\ Acyclic /\ AllExist) =>
            LET ref == RefPaths(started[e])
            IN  /\ IsPrefix(Yielded(e), ref)
                /\ Exhausted(e) <=> (Yielded(e) = ref)
                /\ (ret = RetNone /\ Alone(e)) => Yielded(e) = ref
                /\ ~NextPanicked

\* C1 happens: an exhausted iterator that yielded two paths three nodes deep,
\* over nodes that do not all hold the same value.
C1_Witness ==
    /\ Exhausted(1) /\ Acyclic /\ AllExist
    /\ ret = RetNone
    /\ Len(out[1]) >= 2
    /\ \A i \in 1..Len(out[1]) : Len(out[1][i].path) = 3
    /\ \E i, j \in 1..NumItems : items[i] # items[j]

\* The ancestor indices a yielded path chose, from start down to the node
\* above its root.
Chosen(y) == SubSeq(y.choice, 1, Len(y.choice) - 1)

\* The index vector describes the path: each node is the ancestor of the node
\* above it that the index names.
Describes(y) ==
    /\ Len(y.choice) = Len(y.path)
    /\ \A j \in 1..Len(Chosen(y)) :
        /\ ContainsKey(y.path[j])
        /\ Chosen(y)[j] < Len(ancestors[y.path[j]])
        /\ y.path[j + 1] = ancestors[y.path[j]][Chosen(y)[j] + 1]

LexLess(c, d) ==
    \E k \in 1..Len(c) :
        /\ k <= Len(d)
        /\ \A j \in 1..(k - 1) : c[j] = d[j]
        /\ c[k] < d[k]

\* z is the successor of y in pre-order: some index k of y moves on by one,
\* every index of y below k was the last of its node's list, and z takes
\* index 0 below k.
PreOrderSuccessor(y, z) ==
    \E k \in 1..Len(Chosen(y)) :
        /\ k <= Len(Chosen(z))
        /\ \A j \in 1..(k - 1) : Chosen(z)[j] = Chosen(y)[j]
        /\ Chosen(z)[k] = Chosen(y)[k] + 1
        /\ \A j \in (k + 1)..Len(Chosen(z)) : Chosen(z)[j] = 0
        /\ \A j \in (k + 1)..Len(Chosen(y)) :
            Chosen(y)[j] + 1 = Len(ancestors[y.path[j]])

\* C2: the paths come in depth-first pre-order of their ancestor-index
\* vectors: the first path takes index 0 at every node, each later vector is
\* lexicographically greater than the one before it, and a shallower index is
\* moved on only when every index below it stood at its last choice.
C2_DepthFirstPreOrder ==
    \A e \in Handles : \A i \in 1..Len(out[e]) :
        /\ Describes(out[e][i])
        /\ i = 1 => \A j \in 1..Len(out[e][1].choice) : out[e][1].choice[j] = 0
        /\ i > 1 => /\ LexLess(Chosen(out[e][i - 1]), Chosen(out[e][i]))
                    /\ PreOrderSuccessor(out[e][i - 1], out[e][i])

\* C2 happens: after a path two choices deep, the iterator backtracked to the
\* start node's second ancestor.
C2_Witness ==
    /\ Len(out[1]) = 2
    /\ Chosen(out[1][1]) = <<0, 0>>
    /\ Chosen(out[1][2]) = <<1>>

\* A path of references is a complete walk from start to a root.
CompleteWalk(p, start) ==
    /\ Len(p) >= 1
    /\ p[1] = start
    /\ \A j \in 2..Len(p) : p[j] \in Entries(p[j - 1])
    /\ ContainsKey(p[Len(p)])
    /\ ancestors[p[Len(p)]] = <<>>

\* C3: every yielded path is a complete walk: it begins with the value of
\* start, each later element is the value of an entry of the ancestor list of
\* the node before it, and it ends at a node whose ancestor list is empty.
C3_PathsAreCompleteWalks ==
    \A e \in Handles : \A i \in 1..Len(out[e]) :
        /\ CompleteWalk(out[e][i].path, started[e])
        /\ Yielded(e)[i][1] = Value(started[e])

\* C3 happens: next() has just returned a path of three nodes.
C3_Witness ==
    /\ ret.kind = "some"
    /\ Len(ret.path) = 3
    /\ out[1] # <<>>
    /\ out[1][Len(out[1])].path = ret.path

\* C4: no yielded path holds a node that start does not reach.
C4_OnlyReachableNodes ==
    \A e \in Handles : \A i \in 1..Len(out[e]) :
        \A j \in 1..Len(out[e][i].path) :
            out[e][i].path[j] \in Reach(started[e])

\* C4 happens: the store holds the chain 1 - 0 and, apart from it, node 2;
\* an iterator started in the chain is exhausted.
C4_Witness ==
    /\ NumItems = 3
    /\ Reach(1) = {0, 1}
    /\ Reach(2) = {2}
    /\ started[1] = 1
    /\ Exhausted(1)
    /\ Paths(1) = << <<1, 0>> >>

\* C5: started at a node whose ancestor list is empty, the iterator has
\* either yielded nothing yet and is not exhausted, or has yielded the one
\* path [value(n)] and is exhausted; next() does not panic.
C5_RootYieldsItself ==
    \A e \in Handles :
        (Live(e) /\ ContainsKey(started[e]) /\ ancestors[started[e]] = <<>>) =>
            /\ ~NextPanicked
            /\ IF out[e] = <<>>
               THEN ~Exhausted(e)
               ELSE /\ Paths(e) = << <<started[e]>> >>
                    /\ Yielded(e) = << <<Value(started[e])>> >>
                    /\ Exhausted(e)

\* C5 happens: the second next() on an iterator started at a root that other
\* nodes descend to has reported exhaustion.
C5_Witness ==
    /\ ret = RetNone
    /\ Exhausted(1)
    /\ ancestors[started[1]] = <<>>
    /\ Len(out[1]) = 1
    /\ \E n \in DOMAIN ancestors : started[1] \in Entries(n)

\* C6: two iterators built by stacks(start) for one start on one store
\* yield the same paths in the same order, however their next() calls
\* interleave: what one has yielded is always a prefix of what the other has
\* yielded, or the other way round, and once both are exhausted they have
\* yielded the same sequence.  A fresh iterator stands at the first path.
C6_SameStartSameSequence ==
    \A e, f \in Handles :
        (Live(e) /\ Live(f) /\ started[e] = started[f]) =>
            /\ IsPrefix(out[e], out[f]) \/ IsPrefix(out[f], out[e])
            /\ IsPrefix(Yielded(e), Yielded(f)) \/ IsPrefix(Yielded(f), Yielded(e))
            /\ (Exhausted(e) /\ Exhausted(f)) => out[e] = out[f]
            /\ (out[e] = <<>> /\ Idle(e)) => its[e] = NewStacks(started[e])

\* C6 happens: one iterator was left after its first path, and a second one
\* built later for the same start has run to exhaustion and yielded two
\* different paths.
C6_Witness ==
    /\ Idle(1) /\ Len(out[1]) = 1
    /\ Exhausted(2) /\ Len(out[2]) = 2
    /\ started[1] = started[2]
    /\ out[2][1].path # out[2][2].path

\* C7: on an acyclic store whose ancestor ids all exist the enumeration is
\* finite: a descent loop that has begun reaches its snapshot, an advance loop
\* that has begun reaches the end of next(), and an iterator that is pulled
\* from becomes exhausted.
C7_EnumerationTerminates ==
    /\ (Live(1) /\ its[1].pc = "descend" /\ Acyclic /\ AllExist)
            ~> (its[1].pc = "advance")
    /\ (Live(1) /\ its[1].pc = "advance" /\ Acyclic /\ AllExist) ~> Idle(1)
    /\ (Live(1) /\ Acyclic /\ AllExist) ~> (Exhausted(1) /\ ret = RetNone)

\* C7 happens: an iterator over three nodes in a chain with a branch has
\* become exhausted.
C7_Witness ==
    /\ Exhausted(1) /\ Acyclic /\ AllExist
    /\ NumEdges = MaxEdges
    /\ Reach(started[1]) = DOMAIN ancestors
    /\ Len(out[1]) >= 2

\* The iterator behind e walks a cycle: start reaches a node on a cycle.
WalksCycle(e) == Live(e) /\ CycleFrom(started[e])

\* C8 as stated: with a cycle among the nodes that start reaches, the
\* traversal does not end, neither in exhaustion nor otherwise.
C8_CycleNeverEnds ==
    \A e \in Handles : WalksCycle(e) => (~Exhausted(e) /\ ~NextPanicked)

\* C8, amended: with a cycle among the nodes that start reaches, and every
\* ancestor id that start reaches an existing node, the traversal does not
\* end: next() never panics, the iterator is never exhausted, and the cursor
\* stack grows to any depth (here: to MaxDepth).
C8_ValidCycleNeverEnds ==
    /\ [](\A e \in Handles :
            (WalksCycle(e) /\ AllExistFrom(started[e])) =>
                (~Exhausted(e) /\ ~NextPanicked))
    /\ (WalksCycle(1) /\ AllExistFrom(started[1]))
            ~> (Len(its[1].cursors) = MaxDepth)

\* C8 happens: an iterator over a cycle, every id of which exists, has
\* yielded a path and descended to the deepest cursor stack followed.
C8_Witness ==
    /\ WalksCycle(1) /\ AllExistFrom(started[1])
    /\ out[1] # <<>>
    /\ Len(its[1].cursors) = MaxDepth

\* C9: push(value, ancestors) panics if and only if some supplied ancestor
\* id is >= the number of nodes, and a push that panics leaves the node
\* sequence and every ancestor list as they were.
C9_PushFailsIffAncestorMissing ==
    [][\A value \in Values, a \in Slices :
        Push(value, a) =>
            /\ (ret'.kind = "panic") <=> (\E i \in 1..Len(a) : a[i] >= Len(items))
            /\ (ret'.kind = "panic") =>
                (ret' = RetPanic("push") /\ items' = items /\ ancestors' = ancestors)
      ]_vars

\* C9 happens: a push on a store of two nodes and an ancestor entry panicked.
C9_Witness ==
    /\ ret = RetPanic("push")
    /\ NumItems = 2
    /\ NumEdges >= 1

\* C10: a push that succeeds returns the number of nodes before the call,
\* adds one node holding the value, gives it exactly the supplied ancestor
\* list, and leaves every earlier node value and ancestor list as it was; the
\* ids handed out are 0, 1, 2, ... in insertion order.
C10_PushAppendsOneNode ==
    /\ [](DOMAIN ancestors = 0..(NumItems - 1))
    /\ []((ret.op = "push" /\ ret.kind = "id") => ret.id = NumItems - 1)
    /\ [][\A value \in Values, a \in Slices :
            (Push(value, a) /\ ret'.kind = "id") =>
                /\ ret'.id = Len(items)
                /\ Len(items') = Len(items) + 1
                /\ items'[Len(items')] = value
                /\ DOMAIN ancestors' = DOMAIN ancestors \cup {ret'.id}
                /\ ancestors'[ret'.id] = a
                /\ \A k \in 1..Len(items) : items'[k] = items[k]
                /\ \A k \in DOMAIN ancestors : ancestors'[k] = ancestors[k]
        ]_vars

\* C10 happens: the third push returned id 2 for a node with two ancestors,
\* given in the order 1, 0, after a node with an ancestor of its own.
C10_Witness ==
    /\ ret = RetId("push", 2)
    /\ ancestors[2] = <<1, 0>>
    /\ ancestors[1] = <<0>>
    /\ items[1] # items[3]

\* C11: a successful add_ancestors(id, ancestors) makes id's list its previous
\* list followed by the supplied ids in their order; the node count, the
\* values and every other node's list stay as they were.
C11_AddAncestorsAppends ==
    [][\A id \in Ids, a \in Slices :
        (AddAncestors(id, a) /\ ret'.kind # "panic") =>
            /\ ret' = RetUnit("add_ancestors")
            /\ ancestors'[id] = ancestors[id] \o a
            /\ items' = items
            /\ DOMAIN ancestors' = DOMAIN ancestors
            /\ \A k \in DOMAIN ancestors \ {id} : ancestors'[k] = ancestors[k]
      ]_vars

\* A list of three ids: at most MaxArg of them came in one call, so
\* add_ancestors extended a list that was not empty.
C11_Witness ==
    /\ ret = RetUnit("add_ancestors")
    /\ NumItems = 2
    /\ ancestors[1] = <<0, 1, 1>>
    /\ ancestors[0] = <<>>

\* C12: add_ancestors fails exactly when id is not an existing node, and then
\* leaves the store as it was; when id exists it succeeds whatever ids are
\* supplied, ids of no node and id itself included.
C12_AddFailsIffIdMissing ==
    [][\A id \in Ids, a \in Slices :
        AddAncestors(id, a) =>
            /\ (ret'.kind = "panic") <=> (id >= Len(items))
            /\ (ret'.kind = "panic") =>
                (ret' = RetPanic("add_ancestors")
                    /\ items' = items /\ ancestors' = ancestors)
            /\ (ret'.kind # "panic") => ret' = RetUnit("add_ancestors")
      ]_vars

\* add_ancestors has accepted the node itself and the id of no node.
C12_Witness ==
    /\ ret = RetUnit("add_ancestors")
    /\ NumItems = 1
    /\ ancestors[0] = <<0, 1>>

\* C13: stacks(start) fails when start is not an existing node: no iterator
\* comes into being, no path is yielded and the store is as it was; with an
\* existing start it does not fail.
C13_StacksFailsOnMissingStart ==
    [][\A e \in Handles, start_item \in Ids :
        Stacks(e, start_item) =>
            /\ (ret'.kind = "panic") <=> (start_item >= Len(items))
            /\ (ret'.kind = "panic") =>
                /\ ret' = RetPanic("stacks")
                /\ its' = its /\ its'[e] = NoIt
                /\ out' = out
                /\ items' = items /\ ancestors' = ancestors
            /\ (ret'.kind # "panic") => Live(e)'
      ]_vars

\* stacks has failed on a store of two nodes.
C13_Witness ==
    /\ ret = RetPanic("stacks")
    /\ NumItems = 2
    /\ \A e \in Handles : its[e] = NoIt /\ out[e] = <<>>

\* The second enumeration, from the start of the collected one, is at its end.
Regrown(e) == seen.set /\ Exhausted(e) /\ started[e] = seen.start

\* The nodes whose ancestor list has changed since the collection.
Grown == {n \in DOMAIN ancestors : ancestors[n] # seen.ancestors[n]}

\* Every collected path is among those the iterator behind e has yielded.
StillYielded(e) ==
    \A i \in 1..Len(seen.paths) : \E j \in 1..Len(out[e]) : Paths(e)[j] = seen.paths[i]

\* C14 as stated: after add_ancestors(n, ids), stacks(s) yields at least as
\* many paths as before and every path it yielded before, also when n had an
\* empty ancestor list before the call.
C14_AddNeverRemovesPaths ==
    \A e \in Handles :
        Regrown(e) => Len(out[e]) >= Len(seen.paths) /\ StillYielded(e)

\* C14, amended: when stacks(s) runs to exhaustion before and after
\* add_ancestors(n, ids), it yields at least as many paths after as before;
\* and if n's ancestor list was not empty before the call, every path yielded
\* before is yielded after.
C14_GrowthKeepsPaths ==
    \A e \in Handles :
        Regrown(e) =>
            /\ Len(out[e]) >= Len(seen.paths)
            /\ (\A n \in Grown : seen.ancestors[n] # <<>>) => StillYielded(e)

\* A list that was not empty has grown on a node the enumeration passes, and
\* the second enumeration has yielded more paths than the first.
C14_Witness ==
    /\ Regrown(1)
    /\ \E n \in Grown : seen.ancestors[n] # <<>> /\ n \in Reach(seen.start)
    /\ Len(out[1]) > Len(seen.paths)

\* No ancestor list of a node reachable from n names the same id twice.
NoRepeatsFrom(n) ==
    \A m \in Reach(n) \cap DOMAIN ancestors :
        \A i, j \in 1..Len(ancestors[m]) : ancestors[m][i] = ancestors[m][j] => i = j

\* C15 as stated: on an acyclic store no two paths yielded by one iterator are
\* the same sequence of nodes, also when an ancestor list names the same
\* ancestor more than once.
C15_PathsDistinct ==
    \A e \in Handles :
        (Live(e) /\ Acyclic) =>
            \A i, j \in 1..Len(out[e]) : out[e][i].path = out[e][j].path => i = j

\* C15, amended: no two paths yielded by one iterator come from the same
\* choice of ancestor indices; they are different sequences of nodes when no
\* ancestor list reachable from the start names the same ancestor twice.
C15_ChoicesDistinct ==
    \A e \in Handles :
        Live(e) =>
            /\ \A i, j \in 1..Len(out[e]) :
                    out[e][i].choice = out[e][j].choice => i = j
            /\ NoRepeatsFrom(started[e]) =>
                    \A i, j \in 1..Len(out[e]) :
                        out[e][i].path = out[e][j].path => i = j

\* An iterator has yielded the same sequence of nodes twice, by two choices
\* of ancestor index, and is at its end.
C15_Witness ==
    /\ Exhausted(1)
    /\ Acyclic
    /\ Len(out[1]) = 2
    /\ out[1][1].path = out[1][2].path
    /\ out[1][1].choice # out[1][2].choice

\* C16: creating an iterator, calling next() any number of times and letting
\* the iterator go midway never changes the store: the node count, the values
\* and every ancestor list stay as they were.
C16_EnumerationLeavesStore ==
    [][\A e \in Handles :
        (\/ \E start_item \in Ids : Stacks(e, start_item)
         \/ NextEnter(e)
         \/ DescendStep(e)
         \/ AdvanceStep(e)
         \/ Drop(e)
         \/ its'[e] # its[e]
         \/ out'[e] # out[e]
         \/ ret'.op \in {"stacks", "next", "drop"})
            => (items' = items /\ ancestors' = ancestors)
      ]_vars

\* An iterator over a store with a branch has yielded one path of several
\* and can be let go here.
C16_Witness ==
    /\ Idle(1)
    /\ ~Exhausted(1)
    /\ Len(out[1]) = 1
    /\ ret.kind = "some"
    /\ NumEdges = MaxEdges
    /\ Running

\* C17: after successful push calls and no add_ancestors call, every entry of
\* node k's ancestor list is less than k, so no node names itself and every
\* ancestor named exists; the nodes that have an ancestor list are exactly
\* 0 .. count - 1.
C17_PushOnlyPointsBack ==
    /\ DOMAIN ancestors = 0..(Len(items) - 1)
    /\ \A k \in DOMAIN ancestors :
          \A i \in 1..Len(ancestors[k]) :
              /\ ancestors[k][i] < k
              /\ ancestors[k][i] # k
              /\ ancestors[k][i] \in DOMAIN ancestors

\* Three nodes have been pushed, the later ones with ancestors.
C17_Witness ==
    /\ ret = RetId("push", 2)
    /\ NumItems = 3
    /\ ancestors[1] = <<0>>
    /\ ancestors[2] = <<1, 0>>

\* The path the iterator behind e yielded last.
LastPath(e) == out[e][Len(out[e])].path

\* C18: between next() calls unstack has as many entries as there are
\* cursors, and entry i refers to the value of cursor i's node. What is kept
\* of unstack after a next() that yielded p is a prefix of p; the following
\* next() builds on it, so the path it yields begins with that prefix.
C18_BufferFollowsCursors ==
    \A e \in Handles :
        /\ Idle(e) =>
            /\ Len(its[e].unstack) = Len(its[e].cursors)
            /\ \A i \in 1..Len(its[e].cursors) :
                    /\ its[e].unstack[i] = its[e].cursors[i].item
                    /\ Deref(its[e].unstack)[i] = Value(its[e].cursors[i].item)
            /\ out[e] # <<>> =>
                    /\ IsPrefix(its[e].unstack, LastPath(e))
                    /\ IsPrefix(kept[e], LastPath(e))
            /\ Len(out[e]) >= 2 => IsPrefix(kept[e], out[e][Len(out[e]) - 1].path)
        /\ (Live(e) /\ its[e].pc = "descend") => IsPrefix(kept[e], its[e].unstack)
        /\ (Live(e) /\ its[e].pc = "advance") => IsPrefix(kept[e], its[e].snapshot)

\* Two paths have been yielded; the second was built on the two entries
\* kept of the first, and something is kept of the second.
C18_Witness ==
    /\ Idle(1)
    /\ Len(out[1]) = 2
    /\ Len(kept[1]) = 2
    /\ Len(LastPath(1)) > 2
    /\ out[1][1].path # out[1][2].path
    /\ its[1].unstack # <<>>

\* Cursor i of the iterator behind e is on a node and within its list: on an
\* index of the list, or on 0 when the list is empty.
CursorInBounds(e, i) ==
    LET cursor == its[e].cursors[i]
    IN  /\ ContainsKey(cursor.item)
        /\ IF AncestorsOf(cursor.item) = <<>>
           THEN cursor.ancestor = 0
           ELSE cursor.ancestor < Len(AncestorsOf(cursor.item))

\* The cursors of the iterator behind e form a chain from its start.
CursorChain(e) ==
    LET cursors == its[e].cursors
    IN  /\ cursors # <<>> => cursors[1].item = started[e]
        /\ \A i \in 1..Len(cursors) : CursorInBounds(e, i)
        /\ \A i \in 1..(Len(cursors) - 1) :
              cursors[i + 1].item = PrevItemId(cursors[i])

\* C19: between next() calls on a store whose ancestor ids all exist, the
\* bottom cursor, if any, is on the start; each cursor above is on the node
\* at the ancestor index of the cursor below it; every cursor's index is
\* within its node's list (0 when the list is empty). So the descent loop
\* never reads a list out of bounds, and next() does not panic.
C19_CursorsFormChain ==
    \A e \in Handles :
        (Live(e) /\ AllExist) =>
            /\ Idle(e) => CursorChain(e)
            /\ its[e].pc = "descend" => CursorChain(e)
            /\ ~NextPanicked

\* Between calls on an acyclic store, two cursors deep, with the top cursor
\* moved on to the second ancestor of its node.
C19_Witness ==
    /\ Idle(1)
    /\ AllExist
    /\ Acyclic
    /\ Len(its[1].cursors) = 2
    /\ its[1].cursors[2].ancestor = 1
    /\ out[1] # <<>>

\* C20: once next() has reported the end, every later next() reports the end
\* and leaves the cursor stack and unstack empty. The cursor stack is emptied
\* by the call that yields the last path: its advance loop pops the last
\* cursor after the snapshot, and the same call then returns the snapshot.
C20_ExhaustionIsPermanent ==
    /\ [](\A e \in Handles :
            /\ Exhausted(e) => (its[e].unstack = <<>> /\ out[e] # <<>>)
            /\ (Live(e) /\ its[e].cursors = <<>>) => its[e].pc \in {"advance", "ready"}
            /\ (Live(e) /\ ret = RetNone /\ Alone(e)) => Exhausted(e))
    /\ [][\A e \in Handles :
            /\ (Exhausted(e) /\ NextEnter(e)) =>
                    (ret' = RetNone /\ its' = its /\ out' = out)
            /\ (Exhausted(e) /\ Live(e)') => Exhausted(e)'
            /\ (Live(e) /\ its[e].cursors # <<>> /\ Live(e)'
                    /\ its'[e].cursors = <<>>) =>
                    (its[e].pc = "advance" /\ its'[e].pc = "advance")
            /\ (Live(e) /\ its[e].cursors = <<>> /\ AdvanceStep(e)) =>
                    /\ Exhausted(e)'
                    /\ ret' = RetSome(its[e].snapshot)
                    /\ out'[e] = Append(out[e], Yield(e))
         ]_vars

\* next() has reported the end on an iterator that yielded two paths.
C20_Witness ==
    /\ Exhausted(1)
    /\ ret = RetNone
    /\ Len(out[1]) = 2

====
